---- MODULE Spec2Model ----
(***************************************************************************)
(* rcutils filesystem layer (src/src/filesystem.c): the directory iterator *)
(* (rcutils_dir_iter_start / _next / _end), the stat() predicates, the     *)
(* size queries, rcutils_mkdir, rcutils_join_path and rcutils_expand_user, *)
(* modelled over an explicit file system, native handle table and          *)
(* allocator heap.  Both preprocessor branches of the file are modelled;   *)
(* `platform` says which one the build took.                               *)
(*                                                                         *)
(* Spec is the caller that holds iterators and queries the file system;    *)
(* SpecQueries is the caller that only queries it; SpecPaths is the caller *)
(* that composes paths, creates directories and queries the file system    *)
(* they form.                                                              *)
(*                                                                         *)
(* C strings are sequences of one-character strings; the null pointer is   *)
(* the distinguished sequence NULL.                                        *)
(***************************************************************************)
EXTENDS Integers, Sequences, FiniteSets, Bags, TLC

VARIABLES
  platform,   \* "posix" or "win32": which #ifdef branch was compiled
  fs,         \* the file system: path -> node
  handles,    \* native enumeration handles (DIR * / find HANDLE): id -> stream
  heap,       \* live allocations made through rcutils_allocator_t
  iters,      \* per caller slot: the rcutils_dir_iter_t the caller holds
  started,    \* per slot: the path of the latest successful start
  seen,       \* per slot: bag of names observed in entry_name, from start
              \* up to the first rcutils_dir_iter_next that returned false
  done,       \* per slot: "no", or the outcome of the native read (eof,
              \* error, bad) behind the first false of rcutils_dir_iter_next
  last        \* the most recent public call: arguments, result, native calls

vars == <<platform, fs, handles, heap, iters, started, seen, done, last>>

--------------------------------------------------------------------------
(* Bounds of the model                                                     *)

\* number of iterators a caller may hold at the same time
NumSlots == 2

Slots == 1..NumSlots

\* the count of observations of one name in `seen` saturates here
MaxSeen == 2

\* the native handle identifiers: one per iterator the caller may hold
HandleIds == 1..NumSlots

--------------------------------------------------------------------------
(* Strings and pointers                                                    *)

NULL == <<"NULL">>
EMPTY == <<>>

DOT == <<".">>
DOTDOT == <<".", ".">>
STAR == <<"*">>

\* RCUTILS_PATH_DELIMITER
RCUTILS_PATH_DELIMITER == IF platform = "win32" THEN <<"\\">> ELSE <<"/">>

\* paths used as inputs and as file system keys
P_d == <<"/", "d">>
P_df == <<"/", "d", "/", "f">>
P_ds == <<"/", "d", "/", "s">>
P_dsg == <<"/", "d", "/", "s", "/", "g">>
P_e == <<"/", "e">>
P_x == <<"/", "x">>
P_n == <<"/", "n">>
P_u == <<"/", "u">>
P_uc == <<"/", "u", "/", "c">>
P_nk == <<"/", "n", "/", "k">>
P_xk == <<"/", "x", "/", "k">>
P_r == <<"r">>
P_dr == <<"/", "d", "/", "r">>
P_bn == <<"\\", "n">>
P_o == <<"/", "o">>
P_oh == <<"/", "o", "/", "h">>
P_root == <<"/">>
P_dsup == <<"/", "d", "/", "s", "/", ".", ".">>
P_dup == <<"/", "d", "/", ".", ".">>
P_dfdot == <<"/", "d", "/", "f", "/", ".">>
P_ddf == <<"/", "d", "/", "/", "f">>
P_ddot == <<"/", "d", "/", ".">>
P_nsl == <<"/", "n", "/">>

\* strcmp(a, b) == 0 for two non-null strings
StrEq(a, b) == a = b

\* the allocators a caller may pass: two valid ones and one that fails
\* rcutils_allocator_is_valid
ValidAllocators == {"A1", "A2"}
Allocators == ValidAllocators \cup {"BAD"}

\* the values of the native handle field of the state block
ZERO_HANDLE == 0        \* zero_allocate'd, never assigned (NULL DIR *)
INVALID_HANDLE_VALUE == -1

--------------------------------------------------------------------------
(* The file system and the native calls                                    *)

NoNode == [kind |-> "none", size |-> 0, r |-> FALSE, w |-> FALSE, dots |-> FALSE]
DirNode(r, w, dots) == [kind |-> "dir", size |-> 4, r |-> r, w |-> w, dots |-> dots]
FileNode(size, r, w) == [kind |-> "file", size |-> size, r |-> r, w |-> w, dots |-> FALSE]

\* /d        directory: f (3 bytes) and s (a directory holding g, 5 bytes)
\* /e        directory whose enumeration yields nothing (no dot entries)
\* /x        regular file, 2 bytes
\* /n        does not exist
\* /o        directory whose enumeration yields one name, h (1 byte): it has
\*           no dot entries, as the root of a volume has none
\* /u        directory that cannot be read: it cannot be opened, and the
\*           metadata of its file c (7 bytes) cannot be fetched
InitFs ==
  (P_d :> DirNode(TRUE, TRUE, TRUE)) @@ (P_df :> FileNode(3, TRUE, TRUE)) @@
  (P_ds :> DirNode(TRUE, TRUE, TRUE)) @@
  (P_dsg :> FileNode(5, TRUE, TRUE)) @@ (P_e :> DirNode(TRUE, TRUE, FALSE)) @@
  (P_x :> FileNode(2, TRUE, FALSE)) @@ (P_n :> NoNode) @@
  (P_u :> DirNode(FALSE, TRUE, TRUE)) @@ (P_uc :> FileNode(7, TRUE, TRUE)) @@
  (P_o :> DirNode(TRUE, TRUE, FALSE)) @@ (P_oh :> FileNode(1, TRUE, TRUE))

\* the working directory of the process, against which the native calls
\* resolve a relative path
Cwd == P_d

\* the native path syntax: on win32 both separators are accepted; a path
\* that does not begin with the separator is relative to Cwd
Canon(path) ==
  LET s == [k \in 1..Len(path) |->
              IF platform = "win32" /\ path[k] = "\\" THEN "/" ELSE path[k]]
  IN  IF Len(s) > 0 /\ s[1] = "/" THEN s ELSE Cwd \o <<"/">> \o s

\* A location of the file system is the key of a node: the spelling of its
\* absolute path without "." and ".." components and without doubled or
\* trailing separators.  The root directory has the empty key and always
\* exists.
ROOT == EMPTY
RootNode == DirNode(TRUE, TRUE, TRUE)

NodeAt(key) ==
  IF key = ROOT THEN RootNode
  ELSE IF key \in DOMAIN fs THEN fs[key]
  ELSE NoNode

\* a lookup that fails yields no location but the errno of the failure
NoLocation(errno) == <<"?", errno>>
IsLocation(key) == key = ROOT \/ key[1] = "/"

\* the components of a path: the pieces between its separators (a leading,
\* doubled or trailing separator gives an empty component)
RECURSIVE ComponentsFrom(_, _, _, _)
ComponentsFrom(s, k, before, cur) ==
  IF k > Len(s) THEN Append(before, cur)
  ELSE IF s[k] = "/" THEN ComponentsFrom(s, k + 1, Append(before, cur), EMPTY)
  ELSE ComponentsFrom(s, k + 1, before, Append(cur, s[k]))

Components(s) == ComponentsFrom(s, 1, <<>>, EMPTY)

ParentKey(key) ==
  IF key = ROOT THEN ROOT
  ELSE LET k == CHOOSE j \in 1..Len(key) :
                  key[j] = "/" /\ \A m \in (j + 1)..Len(key) : key[m] # "/"
       IN  SubSeq(key, 1, k - 1)

\* path resolution as the native calls perform it, one component at a
\* time from location cur: every component but the last must name a
\* directory; an empty component names the directory it follows; "." and
\* ".." and every name are looked up in that directory, which takes the
\* permission to search it (a directory of this file system that cannot
\* be read cannot be searched either)
RECURSIVE Walk(_, _)
Walk(comps, cur) ==
  IF comps = <<>> THEN cur
  ELSE LET c == Head(comps)
           child == cur \o <<"/">> \o c
       IN  IF NodeAt(cur).kind # "dir" THEN NoLocation("ENOTDIR")
           ELSE IF c = EMPTY THEN Walk(Tail(comps), cur)
           ELSE IF ~NodeAt(cur).r THEN NoLocation("EACCES")
           ELSE IF c = DOT THEN Walk(Tail(comps), cur)
           ELSE IF c = DOTDOT THEN Walk(Tail(comps), ParentKey(cur))
           ELSE IF NodeAt(child).kind = "none" THEN NoLocation("ENOENT")
           ELSE Walk(Tail(comps), child)

\* the location a path names; the empty path names nothing
Locate(path) ==
  IF path = EMPTY THEN NoLocation("ENOENT")
  ELSE Walk(Components(Canon(path)), ROOT)

\* the node a path names
Resolve(path) == NodeAt(Locate(path))

\* stat(path, &buf): [rc, buf]; a null path fails with EFAULT, every other
\* failure is that of the path resolution
Stat(path) ==
  IF path = NULL THEN [rc |-> -1, buf |-> NoNode]
  ELSE LET nd == Resolve(path)
       IN  IF nd.kind = "none" THEN [rc |-> -1, buf |-> NoNode]
           ELSE [rc |-> 0, buf |-> nd]

\* the names native enumeration of the directory at location dir reports
IsChild(dir, p) ==
  /\ Len(p) > Len(dir) + 1
  /\ SubSeq(p, 1, Len(dir) + 1) = dir \o <<"/">>
  /\ \A k \in (Len(dir) + 2)..Len(p) : p[k] # "/"
  /\ fs[p].kind # "none"

Listing(dir) ==
  {SubSeq(p, Len(dir) + 2, Len(p)) : p \in {q \in DOMAIN fs : IsChild(dir, q)}}
    \cup (IF NodeAt(dir).dots THEN {DOT, DOTDOT} ELSE {})

\* opendir / FindFirstFile can open `path`
CanOpen(path) ==
  /\ path # NULL
  /\ Resolve(path).kind = "dir"
  /\ Resolve(path).r

ClosedStream == [open |-> FALSE, dir |-> EMPTY, rem |-> {}]
OpenStream(dir, rem) == [open |-> TRUE, dir |-> dir, rem |-> rem]

\* the handle value names an open native stream
IsOpen(hd, h) == h \in HandleIds /\ hd[h].open

OpenHandles == {h \in HandleIds : handles[h].open}

--------------------------------------------------------------------------
(* The allocator heap                                                      *)

\* a live allocation: what it holds, for which iterator slot, from which allocator
Block(obj, i, a) == [obj |-> obj, slot |-> i, alloc |-> a]

\* allocator.zero_allocate(...) succeeded
Allocate(hp, obj, i, a) == hp \cup {Block(obj, i, a)}

\* allocator.deallocate(ptr, allocator.state): the block is released; misfree
\* says it had been obtained from another allocator
Deallocate(hp, obj, i, a) ==
  [heap |-> {b \in hp : ~(b.obj = obj /\ b.slot = i)},
   misfree |-> \E b \in hp : b.obj = obj /\ b.slot = i /\ b.alloc # a]

--------------------------------------------------------------------------
(* The record of a public call                                             *)

\* op     the operation;  slot  the iterator slot (0: none);  arg  its path
\* alloc  the allocator passed ("none" when the operation takes none)
\* ret    the returned value: 0/1 for false/true and for NULL/non-NULL
\*        pointers, the byte count for the size queries
\* read   outcome of the native read it made: none, entry, eof, error, bad
\*        (bad: the read was applied to a handle that is not open)
\* name   the entry name the native read produced
\* diag   a message was recorded with RCUTILS_SET_ERROR_MSG
\* sys    the native system calls issued
\* badClose  the native close was applied to a handle that is not open
\* misfree   a block was deallocated through another allocator
\* nullpath  rcutils_get_file_size was handed a NULL joined path
\* prior  for next and end: the slot's `done` when the call was made
\* fault  the call did not return: the process faulted at the named point,
\*        or the call reached a point from which the source defines nothing
\* errno  the error code the native mkdir failed with ("none": no failure)
\* str    the string returned by a path utility (NULL: none, or failure)
\* arg2   the second string argument: the right hand path of join_path, the
\*        home directory expand_user was given by rcutils_get_home_dir
\* oom    the allocation the path utility asked for failed
Call(op, i, arg) ==
  [op |-> op, slot |-> i, arg |-> arg, alloc |-> "none", ret |-> 0, read |-> "none",
   name |-> NULL, diag |-> FALSE, sys |-> {}, badClose |-> FALSE,
   misfree |-> FALSE, nullpath |-> FALSE, prior |-> "no", fault |-> "none",
   errno |-> "none", str |-> NULL, arg2 |-> NULL, oom |-> FALSE]

--------------------------------------------------------------------------
(* struct rcutils_dir_iter_t and rcutils_dir_iter_state_t                  *)

\* st: free (the caller holds NULL), live, ended (the caller holds a
\* pointer to the deallocated record).  state: "NULL" or "BLK", the pointer
\* to the state block.  handle: the state block's dir / handle field.
Iter(st, entry_name, state, a, h) ==
  [st |-> st, entry_name |-> entry_name, state |-> state, allocator |-> a,
   handle |-> h]

NoIter == Iter("free", NULL, "NULL", "BAD", ZERO_HANDLE)

\* closedir(state->dir) / FindClose(state->handle)
NativeClose(hd, h) ==
  IF IsOpen(hd, h) THEN [handles |-> [hd EXCEPT ![h] = ClosedStream], bad |-> FALSE]
  ELSE [handles |-> hd, bad |-> TRUE]

\* What closing a handle that is not open can do.  closedir(NULL) and
\* closing a stream that was already closed are undefined: the call
\* returns an error or the process faults.  FindClose of the null or the
\* invalid handle value returns FALSE.
BadCloseOutcomes(h) ==
  IF platform = "win32" /\ h \in {ZERO_HANDLE, INVALID_HANDLE_VALUE}
    THEN {"return"}
    ELSE {"return", "fault"}

\* readdir(state->dir) / FindNextFile(state->handle, &state->data): the
\* possible results.  An open stream yields any entry not yet reported (the
\* native order is unspecified), reports the end when none is left, or
\* fails with a native error, which consumes nothing.
NativeRead(hd, h) ==
  IF ~IsOpen(hd, h) THEN {[kind |-> "bad", name |-> NULL, handles |-> hd]}
  ELSE {[kind |-> "entry", name |-> n,
         handles |-> [hd EXCEPT ![h].rem = @ \ {n}]] : n \in hd[h].rem}
       \cup (IF hd[h].rem = {} THEN {[kind |-> "eof", name |-> NULL, handles |-> hd]}
             ELSE {})
       \cup {[kind |-> "error", name |-> NULL, handles |-> hd]}

\* rcutils_dir_iter_end without the deallocation of the state block
rcutils_dir_iter_end_keeps_state(i, it, hp, hd) ==
  LET a == it.allocator
      closeName == IF platform = "win32" THEN "FindClose" ELSE "closedir"
      cl == IF it.state # "NULL" THEN NativeClose(hd, it.handle)
            ELSE [handles |-> hd, bad |-> FALSE]
      d2 == Deallocate(hp, "iter", i, a)
  IN  {[heap |-> d2.heap, handles |-> cl.handles, badClose |-> cl.bad,
        misfree |-> d2.misfree,
        sys |-> IF it.state # "NULL" THEN {closeName} ELSE {},
        fault |-> "none"]}

\* rcutils_dir_iter_end without the native close
rcutils_dir_iter_end_no_close(i, it, hp, hd) ==
  LET a == it.allocator
      d1 == Deallocate(hp, "state", i, a)
      d2 == Deallocate(d1.heap, "iter", i, a)
  IN  {[heap |-> d2.heap, handles |-> hd, badClose |-> FALSE,
        misfree |-> d1.misfree \/ d2.misfree, sys |-> {}, fault |-> "none"]}

\* rcutils_dir_iter_end(iter) for a non-null iter held in slot i: the set of
\* possible results [heap, handles, badClose, misfree, sys, fault]
rcutils_dir_iter_end(i, it, hp, hd) ==
  LET a == it.allocator
      closeName == IF platform = "win32" THEN "FindClose" ELSE "closedir"
  IN  IF it.state # "NULL"
      THEN LET cl == NativeClose(hd, it.handle)
               d1 == Deallocate(hp, "state", i, a)
               d2 == Deallocate(d1.heap, "iter", i, a)
           IN  {[heap |-> IF o = "fault" THEN hp ELSE d2.heap,
                 handles |-> cl.handles,
                 badClose |-> cl.bad,
                 misfree |-> o # "fault" /\ (d1.misfree \/ d2.misfree),
                 sys |-> {closeName},
                 fault |-> IF o = "fault" THEN closeName ELSE "none"]
                : o \in IF cl.bad THEN BadCloseOutcomes(it.handle) ELSE {"return"}}
      ELSE LET d2 == Deallocate(hp, "iter", i, a)
           IN  {[heap |-> d2.heap, handles |-> hd, badClose |-> FALSE,
                 misfree |-> d2.misfree, sys |-> {}, fault |-> "none"]}

--------------------------------------------------------------------------
(* rcutils_join_path                                                       *)

\* rcutils_format_string_limit(allocator, limit, format, ...), where `text`
\* is what the format expands to: the text cut to limit - 1 characters (the
\* limit counts the terminator), or NULL when the allocation fails (~ok)
rcutils_format_string_limit(ok, limit, text) ==
  IF ~ok THEN NULL
  ELSE IF Len(text) + 1 > limit THEN SubSeq(text, 1, limit - 1)
  ELSE text

\* rcutils_format_string(allocator, format, ...): the limit is 2048
rcutils_format_string(ok, text) == rcutils_format_string_limit(ok, 2048, text)

\* rcutils_strdup(str, allocator): a copy, or NULL when the allocation fails
rcutils_strdup(str, ok) == IF ~ok THEN NULL ELSE str

\* rcutils_join_path with the format "%s%s": the delimiter left out
rcutils_join_path_no_delimiter(left, right, ok) ==
  IF left = NULL THEN NULL
  ELSE IF right = NULL THEN NULL
  ELSE rcutils_format_string(ok, left \o right)

\* rcutils_join_path(left, right, allocator); ok: the allocation made by
\* rcutils_format_string succeeds
rcutils_join_path(left, right, ok) ==
  IF left = NULL THEN NULL
  ELSE IF right = NULL THEN NULL
  ELSE rcutils_format_string(ok, left \o RCUTILS_PATH_DELIMITER \o right)

--------------------------------------------------------------------------
(* rcutils_to_native_path and rcutils_get_cwd                              *)

\* rcutils_repl_str(str, from, to, &allocator): str with every occurrence
\* of `from` replaced by `to`, read left to right from position k on, `acc`
\* being the part already written
RECURSIVE ReplaceFrom(_, _, _, _, _)
ReplaceFrom(str, from, to, k, acc) ==
  IF k > Len(str) THEN acc
  ELSE IF Len(from) > 0 /\ k + Len(from) - 1 <= Len(str)
            /\ SubSeq(str, k, k + Len(from) - 1) = from
    THEN ReplaceFrom(str, from, to, k + Len(from), acc \o to)
  ELSE ReplaceFrom(str, from, to, k + 1, Append(acc, str[k]))

\* the result is a new string, or NULL when the allocation fails (~ok)
rcutils_repl_str(str, from, to, ok) ==
  IF ~ok THEN NULL ELSE ReplaceFrom(str, from, to, 1, EMPTY)

\* rcutils_to_native_path(path, allocator)
rcutils_to_native_path(path, ok) ==
  IF path = NULL THEN NULL
  ELSE rcutils_repl_str(path, <<"/">>, RCUTILS_PATH_DELIMITER, ok)

\* the working directory as getcwd / _getcwd spells it
NativeCwd == ReplaceFrom(Cwd, <<"/">>, RCUTILS_PATH_DELIMITER, 1, EMPTY)

\* rcutils_get_cwd(buffer, max_length): [ret, sys, buf].  The native call
\* fails when the buffer cannot hold the path and its terminator.
rcutils_get_cwd(buffer, max_length) ==
  IF buffer = "NULL" \/ max_length = 0
    THEN [ret |-> 0, sys |-> {}, buf |-> NULL]
  ELSE IF Len(NativeCwd) + 1 > max_length
    THEN [ret |-> 0, sys |-> {"getcwd"}, buf |-> NULL]
  ELSE [ret |-> 1, sys |-> {"getcwd"}, buf |-> NativeCwd]

--------------------------------------------------------------------------
(* rcutils_expand_user                                                     *)

\* rcutils_expand_user with the limit strlen(homedir) + strlen(path) - 1
rcutils_expand_user_short_limit(path, homedir, ok) ==
  IF path = NULL THEN NULL
  ELSE IF Len(path) = 0 \/ path[1] # "~" THEN rcutils_strdup(path, ok)
  ELSE IF homedir = NULL THEN NULL
  ELSE rcutils_format_string_limit(ok, Len(homedir) + Len(path) - 1,
                                   homedir \o Tail(path))

\* rcutils_expand_user(path, allocator); homedir: what rcutils_get_home_dir()
\* returns (NULL: the home directory cannot be resolved); ok: the allocation
\* succeeds.  path[0] of the empty string is the terminator, not '~'.
rcutils_expand_user(path, homedir, ok) ==
  IF path = NULL THEN NULL
  ELSE IF Len(path) = 0 \/ path[1] # "~" THEN rcutils_strdup(path, ok)
  ELSE IF homedir = NULL THEN NULL
  ELSE rcutils_format_string_limit(ok, Len(homedir) + Len(path),
                                   homedir \o Tail(path))

--------------------------------------------------------------------------
(* rcutils_is_directory, needed by the win32 branch of start               *)

rcutils_is_directory(abs_path) ==
  LET s == Stat(abs_path)
  IN  IF s.rc < 0 THEN FALSE ELSE s.buf.kind = "dir"

--------------------------------------------------------------------------
(* rcutils_dir_iter_start                                                  *)

FreeIds(hd) == {h \in HandleIds : ~hd[h].open}

\* opendir(directory_path): the possible results [h, handles]; h is
\* ZERO_HANDLE (NULL) when the directory cannot be opened or no native
\* handle is left
NativeOpen(hd, path) ==
  IF CanOpen(path) /\ FreeIds(hd) # {}
    THEN {[h |-> h, handles |-> [hd EXCEPT ![h] = OpenStream(Locate(path), Listing(Locate(path)))]]
          : h \in FreeIds(hd)}
    ELSE {[h |-> ZERO_HANDLE, handles |-> hd]}

\* FindFirstFile(search_path, &state->data) for search_path = dir \ "*": the
\* possible results [h, name, notfound, handles].  It opens the stream of
\* the directory the pattern "*" is in and reads its first entry; with
\* nothing to report it fails with ERROR_FILE_NOT_FOUND, and with any other
\* error when that directory cannot be opened.
FindFirstFile(hd, search_path) ==
  LET comps == Components(Canon(search_path))
      dir == Walk(SubSeq(comps, 1, Len(comps) - 1), ROOT)
  IN  IF NodeAt(dir).kind = "dir" /\ NodeAt(dir).r /\ FreeIds(hd) # {}
      THEN IF Listing(dir) = {}
           THEN {[h |-> INVALID_HANDLE_VALUE, name |-> NULL, notfound |-> TRUE,
                  handles |-> hd]}
           ELSE {[h |-> h, name |-> n, notfound |-> FALSE,
                  handles |-> [hd EXCEPT ![h] = OpenStream(dir, Listing(dir) \ {n})]]
                 : h \in FreeIds(hd), n \in Listing(dir)}
      ELSE {[h |-> INVALID_HANDLE_VALUE, name |-> NULL, notfound |-> FALSE,
             handles |-> hd]}

\* the rcutils_dir_iter_start_fail label: rcutils_dir_iter_end(iter); return NULL
StartFail(i, it, hp, hd, lst) ==
  {[it |-> NoIter, heap |-> e.heap, handles |-> e.handles,
    lst |-> [lst EXCEPT !.ret = 0, !.sys = @ \cup e.sys, !.badClose = e.badClose,
                        !.misfree = e.misfree, !.fault = e.fault]]
   : e \in rcutils_dir_iter_end(i, it, hp, hd)}

\* StartPosix with a first readdir that reports nothing taken for a failure
StartPosix_eof_fails(i, path, it, hp, hd, lst) ==
  UNION {
    IF o.h = ZERO_HANDLE
    THEN StartFail(i, [it EXCEPT !.handle = o.h], hp, o.handles,
                   [lst EXCEPT !.sys = @ \cup {"opendir"}, !.diag = TRUE])
    ELSE UNION {
      LET l2 == [lst EXCEPT !.sys = @ \cup {"opendir", "readdir"},
                            !.read = r.kind, !.name = r.name]
          it2 == [it EXCEPT !.handle = o.h]
      IN  IF r.kind = "entry"
          THEN {[it |-> [it2 EXCEPT !.entry_name = r.name], heap |-> hp,
                 handles |-> r.handles, lst |-> [l2 EXCEPT !.ret = 1]]}
          ELSE StartFail(i, it2, hp, r.handles, [l2 EXCEPT !.diag = TRUE])
      : r \in NativeRead(o.handles, o.h)}
    : o \in NativeOpen(hd, path)}

\* the #else branch of start: opendir, then the first readdir
StartPosix(i, path, it, hp, hd, lst) ==
  UNION {
    IF o.h = ZERO_HANDLE
    THEN StartFail(i, [it EXCEPT !.handle = o.h], hp, o.handles,
                   [lst EXCEPT !.sys = @ \cup {"opendir"}, !.diag = TRUE])
    ELSE UNION {
      LET l2 == [lst EXCEPT !.sys = @ \cup {"opendir", "readdir"},
                            !.read = r.kind, !.name = r.name]
          it2 == [it EXCEPT !.handle = o.h]
      IN  IF r.kind = "entry"
          THEN {[it |-> [it2 EXCEPT !.entry_name = r.name], heap |-> hp,
                 handles |-> r.handles, lst |-> [l2 EXCEPT !.ret = 1]]}
          ELSE IF r.kind = "error"
          THEN StartFail(i, it2, hp, r.handles, [l2 EXCEPT !.diag = TRUE])
          ELSE {[it |-> it2, heap |-> hp, handles |-> r.handles,
                 lst |-> [l2 EXCEPT !.ret = 1]]}
      : r \in NativeRead(o.handles, o.h)}
    : o \in NativeOpen(hd, path)}

\* the _WIN32 branch of start: join the search path, FindFirstFile
StartWin32(i, path, it, hp, hd, lst) ==
  UNION {
    LET search_path == rcutils_join_path(path, STAR, ok)
    IN  IF search_path = NULL
        THEN StartFail(i, it, hp, hd, lst)
        ELSE UNION {
          LET l2 == [lst EXCEPT !.sys = @ \cup {"FindFirstFile"}, !.name = f.name,
                                !.read = IF f.h = INVALID_HANDLE_VALUE
                                           THEN (IF f.notfound THEN "eof" ELSE "error")
                                           ELSE "entry"]
              it2 == [it EXCEPT !.handle = f.h]
          IN  IF f.h = INVALID_HANDLE_VALUE
              THEN LET l3 == IF f.notfound THEN [l2 EXCEPT !.sys = @ \cup {"stat"}] ELSE l2
                   IN  IF ~f.notfound \/ ~rcutils_is_directory(path)
                       THEN StartFail(i, it2, hp, f.handles, [l3 EXCEPT !.diag = TRUE])
                       ELSE {[it |-> it2, heap |-> hp, handles |-> f.handles,
                              lst |-> [l3 EXCEPT !.ret = 1]]}
              ELSE {[it |-> [it2 EXCEPT !.entry_name = f.name], heap |-> hp,
                     handles |-> f.handles, lst |-> [l2 EXCEPT !.ret = 1]]}
          : f \in FindFirstFile(hd, search_path)}
    : ok \in BOOLEAN}

\* rcutils_dir_iter_start without the assignment iter->state = state
rcutils_dir_iter_start_no_state(i, path, a, hp, hd) ==
  LET lst == [Call("start", i, path) EXCEPT !.alloc = a]
  IN  IF path = NULL \/ a \notin ValidAllocators
      THEN {[it |-> NoIter, heap |-> hp, handles |-> hd, lst |-> [lst EXCEPT !.diag = TRUE]]}
      ELSE
        {[it |-> NoIter, heap |-> hp, handles |-> hd, lst |-> lst]}
        \cup
        (LET hp1 == Allocate(hp, "iter", i, a)
             it1 == Iter("live", NULL, "NULL", a, ZERO_HANDLE)
             hp2 == Allocate(hp1, "state", i, a)
         IN  StartFail(i, it1, hp1, hd, lst)
             \cup
             (IF platform = "win32"
                THEN StartWin32(i, path, it1, hp2, hd, lst)
                ELSE StartPosix(i, path, it1, hp2, hd, lst)))

\* rcutils_dir_iter_start(directory_path, allocator) for the iterator slot i:
\* the set of possible results [it, heap, handles, lst].  Each zero_allocate
\* may fail.
rcutils_dir_iter_start(i, path, a, hp, hd) ==
  LET lst == [Call("start", i, path) EXCEPT !.alloc = a]
  IN  IF path = NULL
      THEN {[it |-> NoIter, heap |-> hp, handles |-> hd, lst |-> [lst EXCEPT !.diag = TRUE]]}
      ELSE IF a \notin ValidAllocators
      THEN {[it |-> NoIter, heap |-> hp, handles |-> hd, lst |-> [lst EXCEPT !.diag = TRUE]]}
      ELSE
        \* zero_allocate of the iterator record fails
        {[it |-> NoIter, heap |-> hp, handles |-> hd, lst |-> lst]}
        \cup
        (LET hp1 == Allocate(hp, "iter", i, a)
             it1 == Iter("live", NULL, "NULL", a, ZERO_HANDLE)
         IN  \* zero_allocate of the state block fails
             StartFail(i, it1, hp1, hd, lst)
             \cup
             (LET hp2 == Allocate(hp1, "state", i, a)
                  it2 == [it1 EXCEPT !.state = "BLK"]
              IN  IF platform = "win32"
                  THEN StartWin32(i, path, it2, hp2, hd, lst)
                  ELSE StartPosix(i, path, it2, hp2, hd, lst)))

--------------------------------------------------------------------------
(* rcutils_dir_iter_next                                                   *)

\* What a native read of a handle that is not open can do: see
\* BadCloseOutcomes.
BadReadOutcomes(h) == BadCloseOutcomes(h)

\* Line 129, iter->entry_name = iter->state.data.cFileName: iter->state is
\* a void *, so this is not a statement of C and the _WIN32 branch defines
\* nothing from here on: neither a store to entry_name nor the return of
\* line 130.  A call that reaches it is recorded as stopped at this point.
LINE_129 == "iter->state.data"

\* rcutils_dir_iter_next(iter) for a non-null iter: the set of possible
\* results [it, handles, lst].  With a null state the diagnostic is
\* recorded, but the check of line 125 does not return: the native read
\* then dereferences the null state.
rcutils_dir_iter_next(i, it, hd) ==
  LET lst == Call("next", i, NULL)
      readName == IF platform = "win32" THEN "FindNextFile" ELSE "readdir"
  IN  IF it.state = "NULL"
      THEN {[it |-> it, handles |-> hd,
             lst |-> [lst EXCEPT !.diag = TRUE, !.fault = readName]]}
      ELSE UNION {
        LET l2 == [lst EXCEPT !.sys = {readName}, !.read = r.kind, !.name = r.name]
        IN  IF r.kind = "entry"
            THEN IF platform = "win32"
                 THEN {[it |-> it, handles |-> r.handles,
                        lst |-> [l2 EXCEPT !.fault = LINE_129]]}
                 ELSE {[it |-> [it EXCEPT !.entry_name = r.name], handles |-> r.handles,
                        lst |-> [l2 EXCEPT !.ret = 1]]}
            ELSE UNION {
              IF ro = "fault"
              THEN {[it |-> it, handles |-> r.handles,
                     lst |-> [l2 EXCEPT !.fault = readName]]}
              ELSE IF platform = "win32"
              THEN LET cl == NativeClose(r.handles, it.handle)
                   IN  {[it |-> IF co = "fault" THEN it ELSE [it EXCEPT !.entry_name = NULL],
                         handles |-> cl.handles,
                         lst |-> [l2 EXCEPT !.sys = @ \cup {"FindClose"},
                                            !.badClose = cl.bad,
                                            !.fault = IF co = "fault" THEN "FindClose"
                                                      ELSE "none"]]
                        : co \in IF cl.bad THEN BadCloseOutcomes(it.handle)
                                 ELSE {"return"}}
              ELSE {[it |-> [it EXCEPT !.entry_name = NULL], handles |-> r.handles,
                     lst |-> l2]}
              : ro \in IF r.kind = "bad" THEN BadReadOutcomes(it.handle) ELSE {"return"}}
        : r \in NativeRead(hd, it.handle)}

--------------------------------------------------------------------------
(* The stat() predicates and rcutils_get_file_size                         *)

\* Every predicate hands abs_path to stat() unchecked; stat(NULL) fails
\* (EFAULT) and the predicate answers false.

rcutils_is_file(abs_path) ==
  LET s == Stat(abs_path)
  IN  IF s.rc < 0 THEN FALSE ELSE s.buf.kind = "file"

rcutils_exists(abs_path) ==
  LET s == Stat(abs_path)
  IN  IF s.rc < 0 THEN FALSE ELSE TRUE

rcutils_is_readable(abs_path) ==
  LET s == Stat(abs_path)
  IN  IF s.rc < 0 THEN FALSE
      ELSE IF ~s.buf.r THEN FALSE
      ELSE TRUE

rcutils_is_writable(abs_path) ==
  LET s == Stat(abs_path)
  IN  IF s.rc < 0 THEN FALSE
      ELSE IF ~s.buf.w THEN FALSE
      ELSE TRUE

rcutils_is_readable_and_writable(abs_path) ==
  LET s == Stat(abs_path)
  IN  IF s.rc < 0 THEN FALSE
      ELSE IF ~(s.buf.w /\ s.buf.r) THEN FALSE
      ELSE TRUE

\* the native calls a predicate issues for abs_path: its one stat()
PredicateSys(abs_path) == {"stat"}

\* rcutils_get_file_size without the rcutils_is_file test
rcutils_get_file_size_no_file_check(file_path) ==
  LET s == Stat(file_path)
  IN  IF s.rc = 0 THEN s.buf.size ELSE 0

\* rcutils_get_file_size(file_path)
rcutils_get_file_size(file_path) ==
  IF ~rcutils_is_file(file_path) THEN 0
  ELSE LET s == Stat(file_path)
       IN  IF s.rc = 0 THEN s.buf.size ELSE 0

--------------------------------------------------------------------------
(* rcutils_calculate_directory_size                                        *)

\* the internal iterator of rcutils_calculate_directory_size lives in slot 0
CalcSlot == 0

\* one result of the call: the final heap and handles and the call record
CalcResult(hp, hd, lst) == [heap |-> hp, handles |-> hd, lst |-> lst]

\* the body of the loop for an entry that is not "." or "..", without the
\* deallocation of file_path
CalcEntry_no_deallocate(path, it, hp, lst, ok) ==
  LET file_path == rcutils_join_path(path, it.entry_name, ok)
      hp1 == IF file_path = NULL THEN hp
             ELSE Allocate(hp, "path", CalcSlot, it.allocator)
  IN  [heap |-> hp1,
       lst |-> [lst EXCEPT !.ret = @ + rcutils_get_file_size(file_path),
                           !.sys = @ \cup {"stat"},
                           !.nullpath = @ \/ file_path = NULL]]

\* the body of the loop for an entry that is not "." or "..": join the
\* path, add the size of the file, deallocate the joined path: [heap, lst].
\* The allocation made by rcutils_join_path may fail (~ok).
CalcEntry(path, it, hp, lst, ok) ==
  LET file_path == rcutils_join_path(path, it.entry_name, ok)
      hp1 == IF file_path = NULL THEN hp
             ELSE Allocate(hp, "path", CalcSlot, it.allocator)
      d == Deallocate(hp1, "path", CalcSlot, it.allocator)
  IN  [heap |-> d.heap,
       lst |-> [lst EXCEPT !.ret = @ + rcutils_get_file_size(file_path),
                           !.sys = @ \cup {"stat"},
                           !.nullpath = @ \/ file_path = NULL,
                           !.misfree = @ \/ d.misfree]]

\* the do { ... } while (rcutils_dir_iter_next(iter)) loop and the closing
\* rcutils_dir_iter_end(iter), entered with iterator `it` and running total
\* lst.ret: the set of possible results.  strcmp on a NULL entry_name
\* faults.
RECURSIVE CalcLoop(_, _, _, _, _)
CalcLoop(path, it, hp, hd, lst) ==
  IF it.entry_name = NULL
  THEN {CalcResult(hp, hd, [lst EXCEPT !.fault = "strcmp"])}
  ELSE UNION {
    LET skip == StrEq(it.entry_name, DOT) \/ StrEq(it.entry_name, DOTDOT)
        en == IF skip THEN [heap |-> hp, lst |-> lst]
              ELSE CalcEntry(path, it, hp, lst, ok)
    IN  UNION {
          LET l3 == [en.lst EXCEPT !.sys = @ \cup nx.lst.sys,
                                   !.read = nx.lst.read,
                                   !.name = nx.lst.name,
                                   !.badClose = @ \/ nx.lst.badClose,
                                   !.fault = nx.lst.fault]
          IN  IF nx.lst.fault # "none"
              THEN {CalcResult(en.heap, nx.handles, l3)}
              ELSE IF nx.lst.ret = 1
              THEN CalcLoop(path, nx.it, en.heap, nx.handles, l3)
              ELSE {CalcResult(e.heap, e.handles,
                               [l3 EXCEPT !.sys = @ \cup e.sys,
                                          !.badClose = @ \/ e.badClose,
                                          !.misfree = @ \/ e.misfree,
                                          !.fault = e.fault])
                    : e \in rcutils_dir_iter_end(CalcSlot, nx.it, en.heap, nx.handles)}
          : nx \in rcutils_dir_iter_next(CalcSlot, it, hd)}
    : ok \in IF StrEq(it.entry_name, DOT) \/ StrEq(it.entry_name, DOTDOT)
             THEN {TRUE} ELSE BOOLEAN}

\* rcutils_calculate_directory_size(directory_path, allocator): the set of
\* possible results
rcutils_calculate_directory_size(path, a, hp, hd) ==
  LET lst == [Call("calculate_directory_size", 0, path) EXCEPT !.sys = {"stat"},
                                                                !.alloc = a]
  IN  IF ~rcutils_is_directory(path)
      THEN {CalcResult(hp, hd, lst)}
      ELSE UNION {
        LET l2 == [st.lst EXCEPT !.op = lst.op, !.slot = 0, !.ret = 0,
                                 !.sys = @ \cup lst.sys]
        IN  IF st.it.st # "live"
            THEN {CalcResult(st.heap, st.handles, l2)}
            ELSE CalcLoop(path, st.it, st.heap, st.handles, l2)
        : st \in rcutils_dir_iter_start(CalcSlot, path, a, hp, hd)}

--------------------------------------------------------------------------
(* rcutils_mkdir                                                           *)

\* mkdir(abs_path, 0775) / _mkdir(abs_path): the possible results
\* [rc, errno, fs].  The last named component (trailing separators apart)
\* is created in the directory the components before it resolve to.
\* Creation may fail for want of a resource (ENOSPC); a failure changes
\* nothing.
NativeMkdir(abs_path) ==
  LET comps == Components(Canon(abs_path))
      named == {j \in 1..Len(comps) : comps[j] # EMPTY}
      failed(e) == {[rc |-> -1, errno |-> e, fs |-> fs]}
  IN  IF abs_path = EMPTY THEN failed("ENOENT")
      ELSE IF named = {} THEN failed("EEXIST")
      ELSE LET k == CHOOSE j \in named : \A m \in named : m <= j
               parent == Walk(SubSeq(comps, 1, k - 1), ROOT)
               p == parent \o <<"/">> \o comps[k]
           IN  IF ~IsLocation(parent) THEN failed(parent[2])
               ELSE IF NodeAt(parent).kind # "dir" THEN failed("ENOTDIR")
               ELSE IF ~NodeAt(parent).r THEN failed("EACCES")
               ELSE IF comps[k] \in {DOT, DOTDOT} THEN failed("EEXIST")
               ELSE IF NodeAt(p).kind # "none" THEN failed("EEXIST")
               ELSE IF ~NodeAt(parent).w THEN failed("EACCES")
               ELSE {[rc |-> 0, errno |-> "none",
                      fs |-> (p :> DirNode(TRUE, TRUE, TRUE)) @@ fs]}
                    \cup failed("ENOSPC")

\* rcutils_mkdir without the errno == EEXIST clause: only ret == 0 succeeds
rcutils_mkdir_no_eexist(abs_path) ==
  LET lst == Call("mkdir", 0, abs_path)
  IN  IF abs_path = NULL THEN {[fs |-> fs, lst |-> lst]}
      ELSE IF abs_path = EMPTY THEN {[fs |-> fs, lst |-> lst]}
      ELSE IF platform # "win32" /\ abs_path[1] # "/" THEN {[fs |-> fs, lst |-> lst]}
      ELSE {LET l2 == [lst EXCEPT !.sys = {"mkdir"}, !.errno = m.errno]
            IN  IF m.rc = 0
                THEN [fs |-> m.fs, lst |-> [l2 EXCEPT !.ret = 1]]
                ELSE [fs |-> m.fs, lst |-> l2]
            : m \in NativeMkdir(abs_path)}

\* rcutils_mkdir without the test of the leading '/' in the #else branch
rcutils_mkdir_no_absolute_check(abs_path) ==
  LET lst == Call("mkdir", 0, abs_path)
  IN  IF abs_path = NULL THEN {[fs |-> fs, lst |-> lst]}
      ELSE IF abs_path = EMPTY THEN {[fs |-> fs, lst |-> lst]}
      ELSE {LET l2 == [lst EXCEPT !.sys = {"mkdir"}, !.errno = m.errno]
            IN  IF m.rc = 0
                THEN [fs |-> m.fs, lst |-> [l2 EXCEPT !.ret = 1]]
                ELSE IF m.errno = "EEXIST"
                THEN [fs |-> m.fs,
                      lst |-> [l2 EXCEPT !.sys = @ \cup {"stat"},
                                         !.ret = IF rcutils_is_directory(abs_path)
                                                   THEN 1 ELSE 0]]
                ELSE [fs |-> m.fs, lst |-> l2]
            : m \in NativeMkdir(abs_path)}

\* rcutils_mkdir taking errno == EEXIST for success without rcutils_is_directory
rcutils_mkdir_eexist_is_success(abs_path) ==
  LET lst == Call("mkdir", 0, abs_path)
  IN  IF abs_path = NULL THEN {[fs |-> fs, lst |-> lst]}
      ELSE IF abs_path = EMPTY THEN {[fs |-> fs, lst |-> lst]}
      ELSE IF platform # "win32" /\ abs_path[1] # "/" THEN {[fs |-> fs, lst |-> lst]}
      ELSE {LET l2 == [lst EXCEPT !.sys = {"mkdir"}, !.errno = m.errno]
            IN  IF m.rc = 0 \/ m.errno = "EEXIST"
                THEN [fs |-> m.fs, lst |-> [l2 EXCEPT !.ret = 1]]
                ELSE [fs |-> m.fs, lst |-> l2]
            : m \in NativeMkdir(abs_path)}

\* rcutils_mkdir(abs_path): the set of possible results [fs, lst].
\* rcutils_is_directory is called only when mkdir failed with EEXIST.
rcutils_mkdir(abs_path) ==
  LET lst == Call("mkdir", 0, abs_path)
  IN  IF abs_path = NULL THEN {[fs |-> fs, lst |-> lst]}
      ELSE IF abs_path = EMPTY THEN {[fs |-> fs, lst |-> lst]}
      ELSE IF platform # "win32" /\ abs_path[1] # "/" THEN {[fs |-> fs, lst |-> lst]}
      ELSE {LET l2 == [lst EXCEPT !.sys = {"mkdir"}, !.errno = m.errno]
            IN  IF m.rc = 0
                THEN [fs |-> m.fs, lst |-> [l2 EXCEPT !.ret = 1]]
                ELSE IF m.errno = "EEXIST"
                THEN [fs |-> m.fs,
                      lst |-> [l2 EXCEPT !.sys = @ \cup {"stat"},
                                         !.ret = IF rcutils_is_directory(abs_path)
                                                   THEN 1 ELSE 0]]
                ELSE [fs |-> m.fs, lst |-> l2]
            : m \in NativeMkdir(abs_path)}

--------------------------------------------------------------------------
(* The record of the names an iterator has shown                           *)

\* the bag `b` with one more observation of entry_name (none when it is NULL)
Observe(b, entry_name) ==
  IF entry_name = NULL THEN b
  ELSE IF BagIn(entry_name, b)
    THEN [b EXCEPT ![entry_name] = IF @ < MaxSeen THEN @ + 1 ELSE @]
    ELSE b (+) SetToBag({entry_name})

--------------------------------------------------------------------------
(* The caller: the public calls as actions                                 *)

\* the paths a caller passes to rcutils_dir_iter_start
StartPaths == {NULL, P_ds, P_e, P_o, P_n, P_u}

\* the allocator the caller of slot i uses; "BAD" is the invalid one
SlotAllocator(i) == IF i = 1 THEN "A1" ELSE "A2"

\* no call has faulted: the process is still running
Running == last.fault = "none"

Init ==
  /\ platform \in {"posix", "win32"}
  /\ fs = InitFs
  /\ handles = [h \in HandleIds |-> ClosedStream]
  /\ heap = {}
  /\ iters = [i \in Slots |-> NoIter]
  /\ started = [i \in Slots |-> NULL]
  /\ seen = [i \in Slots |-> EmptyBag]
  /\ done = [i \in Slots |-> "no"]
  /\ last = Call("init", 0, NULL)

\* iter = rcutils_dir_iter_start(path, a), the result kept in slot i
Start(i) ==
  /\ Running
  /\ iters[i].st # "live"
  /\ \E path \in StartPaths, a \in {SlotAllocator(i), "BAD"} :
       \E res \in rcutils_dir_iter_start(i, path, a, heap, handles) :
         /\ iters' = [iters EXCEPT ![i] = res.it]
         /\ heap' = res.heap
         /\ handles' = res.handles
         /\ last' = res.lst
         /\ started' = [started EXCEPT ![i] =
                          IF res.it.st = "live" THEN path ELSE NULL]
         /\ seen' = [seen EXCEPT ![i] = Observe(EmptyBag, res.it.entry_name)]
         /\ done' = [done EXCEPT ![i] = "no"]
  /\ UNCHANGED <<platform, fs>>

\* rcutils_dir_iter_next(iter) on the live iterator of slot i
Next_(i) ==
  /\ Running
  /\ iters[i].st = "live"
  /\ \E res \in rcutils_dir_iter_next(i, iters[i], handles) :
       /\ iters' = [iters EXCEPT ![i] = res.it]
       /\ handles' = res.handles
       /\ last' = [res.lst EXCEPT !.prior = done[i]]
       /\ seen' = [seen EXCEPT ![i] =
                     IF res.lst.ret = 1 /\ done[i] = "no"
                       THEN Observe(@, res.it.entry_name) ELSE @]
       /\ done' = [done EXCEPT ![i] =
                     IF @ = "no" /\ res.lst.ret = 0 /\ res.lst.fault = "none"
                       THEN res.lst.read ELSE @]
  /\ UNCHANGED <<platform, fs, heap, started>>

\* rcutils_dir_iter_next(NULL): the argument check
NextNull(i) ==
  /\ Running
  /\ iters[i].st = "free"
  /\ last' = [Call("next", i, NULL) EXCEPT !.diag = TRUE]
  /\ UNCHANGED <<platform, fs, handles, heap, iters, started, seen, done>>

\* rcutils_dir_iter_end(iter) on the live iterator of slot i.  The record is
\* deallocated: what its state field reads afterwards is indeterminate (the
\* stale pointer, or whatever the allocator wrote over it).
End(i) ==
  /\ Running
  /\ iters[i].st = "live"
  /\ \E e \in rcutils_dir_iter_end(i, iters[i], heap, handles) :
       /\ heap' = e.heap
       /\ handles' = e.handles
       /\ last' = [Call("end", i, NULL) EXCEPT !.sys = e.sys, !.badClose = e.badClose,
                                                !.misfree = e.misfree, !.fault = e.fault,
                                                !.prior = done[i]]
       /\ \E stale \in {"NULL", "BLK"} :
            iters' = [iters EXCEPT ![i] =
                        IF e.fault = "none"
                          THEN Iter("ended", NULL, stale, "BAD", ZERO_HANDLE)
                          ELSE @]
  /\ started' = [started EXCEPT ![i] = NULL]
  /\ seen' = [seen EXCEPT ![i] = EmptyBag]
  /\ done' = [done EXCEPT ![i] = "no"]
  /\ UNCHANGED <<platform, fs>>

\* rcutils_dir_iter_end(NULL): a no-op
EndNull(i) ==
  /\ Running
  /\ iters[i].st = "free"
  /\ last' = Call("end", i, NULL)
  /\ UNCHANGED <<platform, fs, handles, heap, iters, started, seen, done>>

NextIter == \E i \in Slots : Start(i) \/ Next_(i) \/ NextNull(i) \/ End(i) \/ EndNull(i)

\* The queries below take no part in an iterator's state.  To keep the
\* model finite they are called while the caller holds no iterator.
Idle == \A i \in Slots : iters[i].st = "free"

\* the paths a caller passes to the predicates and the size queries
QueryPaths ==
  {NULL, P_d, P_df, P_ds, P_e, P_o, P_x, P_n, P_u, P_uc, P_dsup, P_dfdot}

\* the paths a caller passes to stat() through the predicates and
\* rcutils_get_file_size
LookupPaths == QueryPaths \cup {EMPTY, P_root, P_dup, P_ddf, P_ddot}

\* the six predicates, by name
PredicateValue(op, abs_path) ==
  CASE op = "is_directory" -> rcutils_is_directory(abs_path)
    [] op = "is_file" -> rcutils_is_file(abs_path)
    [] op = "exists" -> rcutils_exists(abs_path)
    [] op = "is_readable" -> rcutils_is_readable(abs_path)
    [] op = "is_writable" -> rcutils_is_writable(abs_path)
    [] op = "is_readable_and_writable" -> rcutils_is_readable_and_writable(abs_path)

Predicates ==
  {"is_directory", "is_file", "exists", "is_readable", "is_writable",
   "is_readable_and_writable"}

\* one of the six predicates called on a path
Predicate ==
  /\ Running /\ Idle
  /\ \E op \in Predicates, abs_path \in LookupPaths :
       last' = [Call(op, 0, abs_path) EXCEPT
                  !.ret = IF PredicateValue(op, abs_path) THEN 1 ELSE 0,
                  !.sys = PredicateSys(abs_path)]
  /\ UNCHANGED <<platform, fs, handles, heap, iters, started, seen, done>>

\* rcutils_get_file_size(file_path)
GetFileSize ==
  /\ Running /\ Idle
  /\ \E file_path \in LookupPaths :
       last' = [Call("get_file_size", 0, file_path) EXCEPT
                  !.ret = rcutils_get_file_size(file_path),
                  !.sys = {"stat"}]
  /\ UNCHANGED <<platform, fs, handles, heap, iters, started, seen, done>>

\* rcutils_calculate_directory_size(directory_path, allocator)
CalculateDirectorySize ==
  /\ Running /\ Idle
  /\ \E path \in QueryPaths, a \in {"A1", "BAD"} :
       \E res \in rcutils_calculate_directory_size(path, a, heap, handles) :
         /\ heap' = res.heap
         /\ handles' = res.handles
         /\ last' = res.lst
  /\ UNCHANGED <<platform, fs, iters, started, seen, done>>

NextQuery == Predicate \/ GetFileSize \/ CalculateDirectorySize

Next == NextIter \/ NextQuery

Spec == Init /\ [][Next]_vars

--------------------------------------------------------------------------
(* The caller of the path utilities and of rcutils_mkdir                   *)

\* the paths a caller passes to rcutils_mkdir
MkdirPaths ==
  {NULL, EMPTY, P_n, P_nk, P_d, P_x, P_xk, P_uc, P_r, P_bn, P_nsl, P_ddot, P_root}

\* rcutils_mkdir(abs_path)
Mkdir ==
  /\ Running /\ Idle
  /\ \E abs_path \in MkdirPaths :
       \E res \in rcutils_mkdir(abs_path) :
         /\ fs' = res.fs
         /\ last' = res.lst
  /\ UNCHANGED <<platform, handles, heap, iters, started, seen, done>>

\* the strings a caller passes to rcutils_join_path
JoinStrings ==
  {NULL, EMPTY, <<"a">>, <<"b">>, P_d, <<"/", "d", "/">>, <<"/", "f">>, DOTDOT}

\* The string a path utility returns is allocated through the allocator it
\* was passed and is the caller's to deallocate.  To keep the model finite
\* the caller holds one such string at a time.
StringBlock == Block("str", 0, "A1")
HoldsString == StringBlock \in heap

\* the heap after a path utility returned str
WithString(hp, str) == IF str = NULL THEN hp ELSE Allocate(hp, "str", 0, "A1")

\* rcutils_join_path(left_hand_path, right_hand_path, allocator)
JoinPath ==
  /\ Running /\ Idle /\ ~HoldsString
  /\ \E left \in JoinStrings, right \in JoinStrings, ok \in BOOLEAN :
       LET r == rcutils_join_path(left, right, ok)
       IN  /\ last' = [Call("join_path", 0, left) EXCEPT
                         !.arg2 = right, !.alloc = "A1", !.str = r,
                         !.ret = IF r = NULL THEN 0 ELSE 1,
                         !.oom = left # NULL /\ right # NULL /\ ~ok]
           /\ heap' = WithString(heap, r)
  /\ UNCHANGED <<platform, fs, handles, iters, started, seen, done>>

\* the paths a caller passes to rcutils_expand_user
ExpandPaths ==
  {NULL, EMPTY, <<"~">>, <<"~", "/", "x">>, <<"~", "u">>, <<"/", "a", "/", "x">>,
   <<"a", "~">>}

\* what rcutils_get_home_dir() may return: NULL when the environment names
\* no home directory
HomeDirs == {NULL, EMPTY, <<"/", "h">>, <<"/", "h", "/">>}

\* rcutils_expand_user(path, allocator)
ExpandUser ==
  /\ Running /\ Idle /\ ~HoldsString
  /\ \E path \in ExpandPaths, homedir \in HomeDirs, ok \in BOOLEAN :
       LET r == rcutils_expand_user(path, homedir, ok)
           tilde == path # NULL /\ Len(path) > 0 /\ path[1] = "~"
       IN  /\ last' = [Call("expand_user", 0, path) EXCEPT
                         !.arg2 = IF tilde THEN homedir ELSE NULL,
                         !.alloc = "A1", !.str = r,
                         !.ret = IF r = NULL THEN 0 ELSE 1,
                         !.oom = path # NULL /\ (tilde => homedir # NULL) /\ ~ok]
           /\ heap' = WithString(heap, r)
  /\ UNCHANGED <<platform, fs, handles, iters, started, seen, done>>

\* the paths a caller passes to rcutils_to_native_path
NativePaths ==
  {NULL, EMPTY, <<"a">>, <<"a", "/", "b", "/", "c">>, P_d, <<"/", "/">>,
   <<"a", "\\", "b">>}

\* rcutils_to_native_path(path, allocator)
ToNativePath ==
  /\ Running /\ Idle /\ ~HoldsString
  /\ \E path \in NativePaths, ok \in BOOLEAN :
       LET r == rcutils_to_native_path(path, ok)
       IN  /\ last' = [Call("to_native_path", 0, path) EXCEPT
                         !.alloc = "A1", !.str = r,
                         !.ret = IF r = NULL THEN 0 ELSE 1,
                         !.oom = path # NULL /\ ~ok]
           /\ heap' = WithString(heap, r)
  /\ UNCHANGED <<platform, fs, handles, iters, started, seen, done>>

\* the caller deallocates the string it holds
FreeString ==
  /\ Running /\ Idle /\ HoldsString
  /\ heap' = Deallocate(heap, "str", 0, "A1").heap
  /\ last' = [Call("deallocate", 0, NULL) EXCEPT !.alloc = "A1"]
  /\ UNCHANGED <<platform, fs, handles, iters, started, seen, done>>

\* the buffers and lengths a caller passes to rcutils_get_cwd
CwdBuffers == {"NULL", "BUF"}
CwdLengths == {0, 1, 2, 3, 4}

\* rcutils_get_cwd(buffer, max_length); str is what the buffer holds
GetCwd ==
  /\ Running /\ Idle
  /\ \E buffer \in CwdBuffers, max_length \in CwdLengths :
       LET c == rcutils_get_cwd(buffer, max_length)
       IN  last' = [Call("get_cwd", 0, NULL) EXCEPT
                      !.ret = c.ret, !.sys = c.sys, !.str = c.buf]
  /\ UNCHANGED <<platform, fs, handles, heap, iters, started, seen, done>>

\* the calls that hold no iterator: paths are composed, the file system is
\* created and queried
PathNext ==
  \/ Mkdir \/ JoinPath \/ ExpandUser \/ ToNativePath \/ FreeString \/ GetCwd
  \/ Predicate \/ GetFileSize

SpecPaths == Init /\ [][PathNext]_vars

\* the caller that only queries the file system it finds
SpecQueries == Init /\ [][NextQuery]_vars

--------------------------------------------------------------------------
(* Properties                                                              *)

\* the sum of rcutils_get_file_size over the paths in S
RECURSIVE SumOfSizes(_)
SumOfSizes(S) ==
  IF S = {} THEN 0
  ELSE LET p == CHOOSE q \in S : TRUE
       IN  rcutils_get_file_size(p) + SumOfSizes(S \ {p})

\* the direct children of directory dir that are regular files
FileChildren(dir) == {q \in DOMAIN fs : IsChild(dir, q) /\ rcutils_is_file(q)}

\* C1: when rcutils_dir_iter_start returns failure, the heap and the native
\* handle table are as they were before the call: the iterator record and
\* the state block are deallocated and no handle the call opened is open.
C1_StartFailureReleasesAll ==
  [][(last'.op = "start" /\ last'.ret = 0 /\ last'.fault = "none")
       => (/\ heap' = heap
           /\ \A b \in heap' : b.slot # last'.slot
           /\ handles' = handles)]_vars

\* a start that opened the directory, failed on its first read and returned
C1_Witness ==
  /\ last.op = "start" /\ last.ret = 0 /\ last.fault = "none"
  /\ last.read = "error" /\ "closedir" \in last.sys /\ ~last.badClose
  /\ heap = {} /\ OpenHandles = {}

\* C2: rcutils_dir_iter_end on a live iterator, after any number of
\* rcutils_dir_iter_next calls, leaves no allocation of that iterator on the
\* heap and its native handle not open, and deallocates through the
\* allocator that was passed to start.
C2_EndReleasesAll ==
  [][\A i \in Slots :
       (iters[i].st = "live" /\ last'.op = "end" /\ last'.slot = i
          /\ last'.fault = "none")
       => (/\ heap' = {b \in heap : b.slot # i}
           /\ \A b \in heap' : b.slot # i
           /\ ~IsOpen(handles', iters[i].handle)
           /\ OpenHandles' \subseteq OpenHandles
           /\ ~last'.misfree)]_vars

\* an end that followed the exhaustion of the iterator and closed its stream
C2_Witness ==
  /\ last.op = "end" /\ last.prior = "eof" /\ last.fault = "none"
  /\ "closedir" \in last.sys /\ ~last.badClose
  /\ iters[last.slot].st = "ended" /\ heap = {} /\ OpenHandles = {}

\* C3: once rcutils_dir_iter_next has returned false at the end of the
\* directory, a further rcutils_dir_iter_next on the same iterator returns
\* false, leaves entry_name NULL and completes without fault, reading no
\* native handle that is closed or invalid.
C3_NextAfterExhaustion ==
  (last.op = "next" /\ last.prior = "eof")
    => (/\ last.ret = 0
        /\ last.fault = "none"
        /\ last.read # "bad"
        /\ iters[last.slot].entry_name = NULL)

\* C4: after a start or next on a live iterator that did not fault in a
\* native call, entry_name is present exactly when that call's native read
\* produced an entry, and is then that entry's name; next returns true
\* exactly when its read produced an entry.
C4_EntryNameIffRead ==
  \A i \in Slots :
    (/\ iters[i].st = "live" /\ last.slot = i /\ last.op \in {"start", "next"}
     /\ last.fault \in {"none", LINE_129})
    => (/\ (iters[i].entry_name # NULL) <=> (last.read = "entry")
        /\ last.read = "entry" => iters[i].entry_name = last.name
        /\ last.op = "next" => ((last.ret = 1) <=> (last.read = "entry")))

\* C5: a start on an existing directory whose first native read reports
\* nothing, without error, succeeds with a non-null state and a NULL
\* entry_name; when the first read yields an entry, start succeeds with
\* entry_name set to it.
C5_StartFirstRead ==
  (last.op = "start" /\ Running /\ rcutils_is_directory(last.arg)
     /\ last.read \in {"eof", "entry"})
  => (/\ last.ret = 1
      /\ iters[last.slot].st = "live"
      /\ iters[last.slot].state = "BLK"
      /\ last.read = "eof" => iters[last.slot].entry_name = NULL
      /\ last.read = "entry" => (/\ last.name # NULL
                                 /\ iters[last.slot].entry_name = last.name))

\* a successful start on the directory whose enumeration yields nothing
C5_Witness ==
  /\ last.op = "start" /\ last.arg = P_e /\ last.read = "eof" /\ last.ret = 1
  /\ iters[last.slot].st = "live" /\ iters[last.slot].entry_name = NULL

\* C6: every entry the native enumeration hands to rcutils_dir_iter_next
\* before its first false result is yielded: next returns true and the name
\* is shown in entry_name; and when next first returns false at the end of
\* an unmodified directory, the names shown since start are exactly the
\* native listing of the directory, each once.
C6_YieldsNativeListing ==
  [][\A i \in Slots :
       /\ (last'.op = "next" /\ last'.slot = i /\ last'.read = "entry"
             /\ done[i] = "no")
          => (last'.ret = 1 /\ BagIn(last'.name, seen'[i]))
       /\ (iters'[i].st = "live" /\ done'[i] = "eof")
          => seen'[i] = SetToBag(Listing(Locate(started'[i])))]_vars

\* C7: a rcutils_dir_iter_next whose native read fails with an error records
\* a diagnostic, clears entry_name and returns false.
C7_ReadErrorDiagnosed ==
  (last.op = "next" /\ last.read = "error" /\ Running)
    => (/\ last.diag
        /\ last.ret = 0
        /\ iters[last.slot].entry_name = NULL)

\* C8: an operation given a NULL path, and start given an invalid
\* allocator, returns its failure value without issuing a native call.
C8_NullArgumentNoSyscall ==
  (\/ (last.op \notin {"init", "next", "end"} /\ last.arg = NULL)
   \/ (last.op = "start" /\ last.alloc = "BAD"))
    => (last.sys = {} /\ last.ret = 0)

\* C9 as claimed: the state pointer is non-null in a live iterator and null
\* after rcutils_dir_iter_end.
C9_StateNullAfterEnd ==
  \A i \in Slots :
    /\ iters[i].st = "live" => iters[i].state # "NULL"
    /\ iters[i].st = "ended" => iters[i].state = "NULL"

\* C9 as amended: the state pointer of a live iterator is non-null and its
\* state block is allocated, from start on and across every next; after
\* rcutils_dir_iter_end the state block and the record are deallocated (the
\* field is not reset).
C9_StateBlockLifetime ==
  \A i \in Slots :
    /\ iters[i].st = "live"
         => (/\ iters[i].state = "BLK"
             /\ Block("state", i, iters[i].allocator) \in heap
             /\ Block("iter", i, iters[i].allocator) \in heap)
    /\ (iters[i].st = "ended" /\ Running) => \A b \in heap : b.slot # i

\* an iterator ended after next calls, while another one is live after a next
C9_Witness ==
  \E i, j \in Slots :
    /\ iters[i].st = "ended" /\ last.op = "end" /\ last.slot = i
    /\ last.prior # "no"
    /\ iters[j].st = "live" /\ done[j] # "no"

\* C10: rcutils_calculate_directory_size on a directory whose enumeration
\* runs to its end, with every path joined, returns the sum of
\* rcutils_get_file_size over the direct children that are regular files.
C10_DirectorySizeIsSumOfFiles ==
  (last.op = "calculate_directory_size" /\ rcutils_is_directory(last.arg)
     /\ last.read = "eof" /\ ~last.nullpath)
    => (/\ last.fault = "none"
        /\ last.ret = SumOfSizes(FileChildren(Locate(last.arg))))

\* the path is one rcutils_mkdir rejects before any native call: NULL, the
\* empty string or, in the #else branch, a path not beginning with '/'
MkdirRejects(abs_path) ==
  \/ abs_path = NULL
  \/ abs_path = EMPTY
  \/ (platform = "posix" /\ abs_path[1] # "/")

\* C11: when rcutils_mkdir has returned true for a path, the call that
\* immediately follows on the same path returns true and leaves the file
\* system unchanged; rcutils_mkdir on a path that stat() shows to be a
\* directory returns true and changes nothing.
C11_MkdirIdempotent ==
  [][/\ (last.op = "mkdir" /\ last.ret = 1 /\ last'.op = "mkdir" /\ last'.arg = last.arg)
          => (last'.ret = 1 /\ fs' = fs)
     /\ (last'.op = "mkdir" /\ Stat(last'.arg).rc = 0 /\ Stat(last'.arg).buf.kind = "dir")
          => (last'.ret = 1 /\ fs' = fs)]_vars

\* a second rcutils_mkdir on a path that a first one had created
C11_Witness ==
  /\ last.op = "mkdir" /\ last.arg = P_nk /\ last.ret = 1 /\ last.errno = "EEXIST"
  /\ "stat" \in last.sys
  /\ fs # InitFs /\ fs[P_nk].kind = "dir"

\* C12: rcutils_mkdir given NULL, the empty string or, in the #else (POSIX)
\* branch, a path that does not begin with '/' returns false, issues no
\* native call and leaves the file system unchanged.
C12_MkdirRejectsWithoutNativeCall ==
  [][(last'.op = "mkdir" /\ MkdirRejects(last'.arg))
       => (last'.ret = 0 /\ last'.sys = {} /\ last'.errno = "none" /\ fs' = fs)]_vars

\* a relative path rejected in the POSIX branch, after a directory was created
C12_Witness ==
  /\ platform = "posix" /\ last.op = "mkdir" /\ last.arg = P_r
  /\ last.ret = 0 /\ last.sys = {}
  /\ fs # InitFs /\ P_dr \notin DOMAIN fs

\* C13: a rcutils_dir_iter_next or rcutils_dir_iter_end on one iterator
\* leaves every other live iterator as it was: its record (entry_name,
\* state, handle) and its native stream, hence the names it has still to
\* yield.
C13_IteratorsIndependent ==
  [][\A i, j \in Slots :
       (i # j /\ last'.op \in {"next", "end"} /\ last'.slot = i
          /\ iters[i].st = "live" /\ iters[j].st = "live")
       => (/\ iters'[j] = iters[j]
           /\ IsOpen(handles, iters[j].handle)
                => handles'[iters[j].handle] = handles[iters[j].handle])]_vars

\* C14: each of the six predicates returns false for a path whose stat()
\* fails (nothing there, or a directory on the way that cannot be read);
\* rcutils_get_file_size returns 0 for a path that is not a regular file;
\* rcutils_calculate_directory_size returns 0 for a path that is not a
\* directory.  Each of these calls returns.
C14_TotalWithDefaults ==
  /\ (last.op \in Predicates /\ last.arg # NULL /\ Stat(last.arg).rc < 0)
       => (last.ret = 0 /\ Running)
  /\ (last.op = "get_file_size" /\ last.arg # NULL /\ Resolve(last.arg).kind # "file")
       => (last.ret = 0 /\ Running)
  /\ (last.op = "calculate_directory_size" /\ last.arg # NULL
        /\ Resolve(last.arg).kind # "dir")
       => (last.ret = 0 /\ Running)

\* rcutils_get_file_size called on a directory, whose st_size is not zero
C14_Witness ==
  /\ last.op = "get_file_size" /\ last.arg = P_ds /\ last.ret = 0
  /\ Stat(P_ds).rc = 0 /\ Stat(P_ds).buf.kind = "dir" /\ Stat(P_ds).buf.size > 0

\* C15 as claimed: rcutils_join_path returns NULL exactly when left or right
\* is NULL, and otherwise left, the platform delimiter and right, as given.
C15_JoinAbsentIffArgumentAbsent ==
  last.op = "join_path"
    => (/\ (last.str = NULL) <=> (last.arg = NULL \/ last.arg2 = NULL)
        /\ (last.arg # NULL /\ last.arg2 # NULL)
             => last.str = last.arg \o (IF platform = "win32" THEN <<"\\">> ELSE <<"/">>)
                                    \o last.arg2)

\* C15 as amended: rcutils_join_path returns NULL exactly when left or right
\* is NULL or the allocation of the result fails, and otherwise left, the
\* platform delimiter and right, as given.
C15_JoinAbsentIffArgumentAbsentOrNoMemory ==
  last.op = "join_path"
    => (/\ (last.str = NULL) <=> (last.arg = NULL \/ last.arg2 = NULL \/ last.oom)
        /\ (last.arg # NULL /\ last.arg2 # NULL /\ ~last.oom)
             => last.str = last.arg \o (IF platform = "win32" THEN <<"\\">> ELSE <<"/">>)
                                    \o last.arg2)

\* a join that keeps the duplicate delimiters of its arguments
C15_Witness ==
  /\ platform = "posix" /\ last.op = "join_path"
  /\ last.arg = <<"/", "d", "/">> /\ last.arg2 = <<"/", "f">>
  /\ last.str = <<"/", "d", "/", "/", "/", "f">>

\* the path begins with the home reference character
Tilde(path) == path # NULL /\ Len(path) > 0 /\ path[1] = "~"

\* C16 as claimed: rcutils_expand_user returns a copy of a path that does
\* not begin with '~'; for '~' followed by rest it returns the home
\* directory followed by rest, in full, and NULL when there is no home
\* directory.
C16_ExpandUser ==
  (last.op = "expand_user" /\ last.arg # NULL)
    => (/\ ~Tilde(last.arg) => last.str = last.arg
        /\ (Tilde(last.arg) /\ last.arg2 # NULL)
             => last.str = last.arg2 \o SubSeq(last.arg, 2, Len(last.arg))
        /\ (Tilde(last.arg) /\ last.arg2 = NULL) => last.str = NULL)

\* C16 as amended: the same, unless the allocation of the result fails, in
\* which case the result is NULL.
C16_ExpandUserUnlessNoMemory ==
  (last.op = "expand_user" /\ last.arg # NULL)
    => (/\ (~Tilde(last.arg) /\ ~last.oom) => last.str = last.arg
        /\ (Tilde(last.arg) /\ last.arg2 # NULL /\ ~last.oom)
             => last.str = last.arg2 \o SubSeq(last.arg, 2, Len(last.arg))
        /\ (Tilde(last.arg) /\ last.arg2 = NULL) => last.str = NULL
        /\ last.oom => last.str = NULL)

\* "~/x" expanded with the home directory "/h"
C16_Witness ==
  /\ last.op = "expand_user" /\ last.arg = <<"~", "/", "x">>
  /\ last.arg2 = <<"/", "h">> /\ last.str = <<"/", "h", "/", "x">>

\* C17: in start (its failure path included), next and end the native close
\* is applied only to a handle that is open: never to one that was not
\* opened or was closed before, and never by next.
C17_CloseOnlyOpenHandle ==
  last.op \in {"start", "next", "end"}
    => (/\ ~last.badClose
        /\ last.op = "next" => last.sys \cap {"closedir", "FindClose"} = {})

\* C18: rcutils_calculate_directory_size never hands a NULL entry_name to
\* strcmp and never hands a NULL joined path to rcutils_get_file_size.
C18_CalcNeverReadsNull ==
  last.op = "calculate_directory_size"
    => (last.fault # "strcmp" /\ ~last.nullpath)

\* C19: a rcutils_calculate_directory_size that returns leaves the heap and
\* the set of open native handles as they were when it was called: its
\* iterator is ended and every joined path is deallocated.
C19_CalcResourceNeutral ==
  [][(last'.op = "calculate_directory_size" /\ last'.fault = "none")
       => (heap' = heap /\ OpenHandles' = OpenHandles /\ ~last'.misfree)]_vars

\* a call that ran through the directory /d, joined paths and returned
C19_Witness ==
  /\ last.op = "calculate_directory_size" /\ last.arg = P_d /\ Running
  /\ last.read = "eof" /\ ~last.nullpath /\ last.ret = 3
  /\ last.sys \cap {"closedir", "FindClose"} # {}
  /\ heap = {} /\ OpenHandles = {}

\* C20: rcutils_mkdir returns true only if the path is a directory when the
\* call returns; a native failure other than EEXIST on a directory (EEXIST
\* on a path that is not a directory, ENOENT, ENOTDIR, EACCES, ENOSPC) yields
\* false, with no diagnostic recorded and the file system unchanged.
C20_MkdirTrueOnlyIfDirectory ==
  /\ [](last.op = "mkdir"
         => (/\ last.ret = 1 => rcutils_is_directory(last.arg)
             /\ (last.errno # "none"
                   /\ ~(last.errno = "EEXIST" /\ rcutils_is_directory(last.arg)))
                  => last.ret = 0))
  /\ [][(last'.op = "mkdir" /\ last'.ret = 0) => (fs' = fs /\ ~last'.diag)]_vars

\* rcutils_mkdir on an existing regular file: EEXIST, not a directory, false
C20_Witness ==
  /\ last.op = "mkdir" /\ last.arg = P_x /\ last.errno = "EEXIST"
  /\ "stat" \in last.sys /\ last.ret = 0 /\ ~last.diag
  /\ ~rcutils_is_directory(P_x)

====
